---- MODULE Spec2Model ----
(***************************************************************************)
(* Model of molvs/normalize.py: Normalizer.normalize (the restart loop     *)
(* over an ordered sequence of Normalization transforms) and               *)
(* Normalizer._apply_transform (repeated application of one transform      *)
(* with de-duplication by canonical SMILES and alphabetical choice).       *)
(*                                                                         *)
(* The RDKit primitives (RunReactants, SanitizeMol, MolToSmiles) are       *)
(* external to the repository; they are represented by a small synthetic   *)
(* chemistry: a molecule is a canonical string (a sequence of character    *)
(* codes) plus an atom ordering that the canonical string does not show.   *)
(***************************************************************************)
EXTENDS Integers, Sequences, FiniteSets, TLC

VARIABLES
    g,               \* the molecule the caller passes to the first call
    normalizations,  \* self.normalizations: ordered sequence of rule names
    max_restarts,    \* self.max_restarts
    turn,            \* which run takes the next step (runs alternate)
    pc,              \* per run: position in the code
    mol,             \* per run: normalize's local `mol`
    n,               \* per run: normalize's loop variable `n` (passes begun before this one)
    pos,             \* per run: 1-based position of `normalization` in the sequence
    mols,            \* per run: _apply_transform's list `mols` (the frontier)
    rn,              \* per run: _apply_transform's loop variable `n` (round)
    cands,           \* per run: the last non-empty `products` dict of the current _apply_transform call
    ret,             \* per run: value returned by the last _apply_transform call
    calls,           \* per run: log of the _apply_transform calls of the current normalize call
    warned,          \* per run: number of 'Gave up normalization' warnings in the current call
    sanitized,       \* per run: number of final Chem.SanitizeMol(mol) calls in the current call
    returned,        \* per run: log of the completed normalize calls
    memo,            \* the Normalization objects that hold a stored `transform`
    compiled,        \* per Normalization object: calls of AllChem.ReactionFromSmarts so far
    own,             \* per run: `mol` is still bound to the object the caller passed in
    touched,         \* per run: in-place Chem.SanitizeMol calls on the caller's object in the current call
    prev             \* per run: the frontier `mols` the last non-empty round started from

vars == <<g, normalizations, max_restarts, turn, pc, mol, n, pos, mols, rn,
          cands, ret, calls, warned, sanitized, returned, memo, compiled,
          own, touched, prev>>

----------------------------------------------------------------------------
(* Bounds of the model *)

\* largest max_restarts the engine is configured with
MaxRestarts == 3

\* longest rule sequence the engine is configured with
MaxRules == 2

\* longest canonical string of a caller-supplied molecule
MaxLen == 2

(* Program constants *)

\* the `20` of `for n in xrange(20)` in _apply_transform
MaxRounds == 20

----------------------------------------------------------------------------
(* The synthetic chemistry *)

Chars == {1, 2}

A  == <<1>>
B  == <<2>>
AA == <<1, 1>>
AB == <<1, 2>>
BA == <<2, 1>>
BB == <<2, 2>>

\* canonical strings of the molecules a caller can supply
Smiles == UNION {[1..k -> Chars] : k \in 1..MaxLen}

\* atom orderings of one structure; invisible in the canonical string
Ords == {0, 1}

Mol(s, o) == [smi |-> s, ord |-> o]

\* Python's None (the value `_apply_transform` returns for "not applicable")
None == [smi |-> << >>, ord |-> 0]

\* Chem.MolToSmiles(product, isomericSmiles=True): the canonical string
\* depends on the structure only, not on the atom ordering
MolToSmiles(m) == m.smi

\* Chem.SanitizeMol(product, catchErrors=True) == 0: a structure made of
\* two or more atoms that are all of kind 2 cannot be sanitized
SanitizeOK(m) ==
    ~(Len(m.smi) >= 2 /\ \A i \in 1..Len(m.smi) : m.smi[i] = 2)

\* The structures a compiled transform produces from a structure, in the
\* primitive's base order of matches; each product is a 1-tuple of molecules
\* as RunReactants returns them.
Reaction(rule, s) ==
    CASE rule = "osc"    /\ s = A  -> << <<Mol(B, 0)>> >>
      [] rule = "osc"    /\ s = B  -> << <<Mol(A, 0)>> >>
      [] rule = "fwd"    /\ s = A  -> << <<Mol(B, 0)>> >>
      [] rule = "fwd"    /\ s = AB -> << <<Mol(BB, 0)>> >>
      [] rule = "fwd"    /\ s = AA -> << <<Mol(BB, 0)>>, <<Mol(AB, 1)>>, <<Mol(BB, 1)>> >>
      [] rule = "back"   /\ s = B  -> << <<Mol(A, 0)>> >>
      [] rule = "up"     /\ s = B  -> << <<Mol(BA, 0)>> >>
      [] rule = "branch" /\ s = A  -> << <<Mol(B, 0)>>, <<Mol(AA, 0)>>, <<Mol(AA, 1)>> >>
      [] rule = "branch" /\ s = BA -> << <<Mol(AB, 0)>>, <<Mol(A, 1)>> >>
      [] OTHER -> << >>

RuleNames == {"osc", "fwd", "back", "up", "branch"}

\* the Normalization objects of the model: the rules above and one whose
\* reaction SMARTS cannot be parsed
AllNames == RuleNames \cup {"broken"}

\* AllChem.ReactionFromSmarts(self.transform_str.encode('utf8')) returns a
\* reaction (it raises on text that is no reaction SMARTS)
Compiles(rule) == rule # "broken"

\* Normalization.__init__ that builds the transform at once
ConstructedEager(rule) == 1

\* Normalization.__init__: the calls of ReactionFromSmarts it makes
Constructed(rule) == 0

\* memoized_property: the object already holds the value of the property
Memoized(cache, rule) == rule \in cache

\* memoized_property: the value the getter returned is stored on the object
Remember(cache, rule) == cache \cup {rule}

\* injective maps 1..k -> 1..k
Perms(k) == {p \in [1..k -> 1..k] : \A i, j \in 1..k : p[i] = p[j] => i = j}

\* rule.RunReactants((mol,)): the product tuples of every match, in any of the
\* orders in which the primitive may enumerate the matches; the atom ordering
\* of a product follows from that of the reactant and from the match
RunReactants(rule, m) ==
    LET base == Reaction(rule, m.smi)
        k    == Len(base)
        out(i) == <<Mol(base[i][1].smi, (base[i][1].ord + m.ord) % 2)>>
    IN  {[i \in 1..k |-> out(p[i])] : p \in Perms(k)}

----------------------------------------------------------------------------
(* Python helpers *)

\* s < t on Python unicode strings: lexicographic by code point
StrLess(s, t) ==
    \E i \in 1..(Len(t)) :
        /\ \A j \in 1..(i - 1) : j <= Len(s) /\ s[j] = t[j]
        /\ \/ i > Len(s)
           \/ i <= Len(s) /\ s[i] < t[i]

\* the dict `products = {}`
EmptyDict == << >>

\* products[k] = v
DictPut(d, k, v) == [x \in (DOMAIN d) \cup {k} |-> IF x = k THEN v ELSE d[x]]

\* sorted(products): the keys of the dict in ascending string order
RECURSIVE SortedKeys(_)
SortedKeys(S) ==
    IF S = {} THEN << >>
    ELSE LET m == CHOOSE x \in S : \A y \in S \ {x} : StrLess(x, y)
         IN  <<m>> \o SortedKeys(S \ {m})

\* [products[s] for s in sorted(products)]
SortedValues(d) ==
    LET ks == SortedKeys(DOMAIN d)
    IN  [i \in 1..Len(ks) |-> d[ks[i]]]

----------------------------------------------------------------------------
(* Normalizer._apply_transform, one round at a time *)

\* [x[0] for x in rule.RunReactants((mol,))]
Firsts(xs) == [i \in 1..Len(xs) |-> xs[i][1]]

\* every sequence in which one round can meet the products of the frontier:
\* `for mol in mols` visits the frontier in list order, and the primitive
\* enumerates the products of each member in an order of its own
RECURSIVE Enumerations(_, _)
Enumerations(rule, ms) ==
    IF ms = << >> THEN {<< >>}
    ELSE {Firsts(x) \o rest : x \in RunReactants(rule, Head(ms)),
                              rest \in Enumerations(rule, Tail(ms))}

\* Store without the sanitization test
StoreUnchecked(d, product) == DictPut(d, MolToSmiles(product), product)

\* if Chem.SanitizeMol(product, catchErrors=True) == 0:
\*     products[Chem.MolToSmiles(product, isomericSmiles=True)] = product
Store(d, product) ==
    IF SanitizeOK(product) THEN DictPut(d, MolToSmiles(product), product) ELSE d

\* Collect that keeps only the first product the primitive enumerates
CollectFirst(ps, d) == IF ps = << >> THEN d ELSE Store(d, Head(ps))

\* the two nested for loops of one round, filling `products`
RECURSIVE Collect(_, _)
Collect(ps, d) ==
    IF ps = << >> THEN d ELSE Collect(Tail(ps), Store(d, Head(ps)))

\* RoundResult that takes the last member of the sorted frontier
RoundResultLast(ms, k) == IF k > 0 THEN ms[Len(ms)] ELSE None

\* RoundResult that returns the molecule also when no round produced anything
RoundResultAlways(ms, k) == ms[1]

\* return mols[0] if n > 0 else None
RoundResult(ms, k) == IF k > 0 THEN ms[1] ELSE None

\* NextRound that does not count the round
NextRoundStuck(k) == k

\* the value of `n` in the next turn of `for n in xrange(20)`
NextRound(k) == k + 1

\* products that is set up once, before the rounds
KeepProducts(old) == old

\* products = {} at the start of every round
FreshProducts(old) == EmptyDict

\* FallOffEnd that returns the first member of the frontier
FallOffEndFirst(ms) == ms[1]

\* the value of a Python call whose body ends without a return statement
FallOffEnd(ms) == None

\* `if product:` -- an RDKit Mol is truthy, None is not
Truthy(product) == product # None

----------------------------------------------------------------------------
(* The runs *)

Runs == DOMAIN pc

\* runs take steps alternately; a single run takes every step
NextTurn(r) == IF Runs = {r} THEN r ELSE CHOOSE q \in Runs : q # r

\* the molecule passed to the current (or next) normalize call of run r: the
\* caller's molecule first, then the molecule the previous call returned
Input(r) ==
    IF returned[r] = << >> THEN g ELSE returned[r][Len(returned[r])].result

\* an exception handled as the end of the passes
Swallowed(e) == "gaveup"

\* an exception nothing in normalize catches leaves the call
Uncaught(e) == e

\* the rule `normalization` the inner for loop is at
Rule(r) == normalizations[pos[r]]

Upd(f, r, v) == [f EXCEPT ![r] = v]

InitWith(R, names) ==
    /\ g \in {Mol(s, o) : s \in Smiles, o \in Ords}
    /\ normalizations \in UNION {[1..k -> names] : k \in 0..MaxRules}
    /\ max_restarts \in 1..MaxRestarts
    /\ turn = 1
    /\ pc = [r \in R |-> "idle"]
    /\ mol = [r \in R |-> None]
    /\ n = [r \in R |-> 0]
    /\ pos = [r \in R |-> 1]
    /\ mols = [r \in R |-> << >>]
    /\ rn = [r \in R |-> 0]
    /\ cands = [r \in R |-> EmptyDict]
    /\ ret = [r \in R |-> None]
    /\ calls = [r \in R |-> << >>]
    /\ warned = [r \in R |-> 0]
    /\ sanitized = [r \in R |-> 0]
    /\ returned = [r \in R |-> << >>]
    /\ memo = {}
    /\ compiled = [x \in AllNames |-> Constructed(x)]
    /\ own = [r \in R |-> FALSE]
    /\ touched = [r \in R |-> 0]
    /\ prev = [r \in R |-> << >>]

\* an engine whose rules all have a reaction SMARTS that parses
InitRuns(R) == InitWith(R, RuleNames)

Init == InitRuns({1})

\* OuterLoop that makes one pass too few
OuterLoopShort(k) == IF k + 1 < max_restarts THEN "rule" ELSE "gaveup"

\* OuterLoop that allows one pass too many
OuterLoopOneMore(k) == IF k <= max_restarts THEN "rule" ELSE "gaveup"

\* where the outer loop `for n in xrange(self.max_restarts)` goes with n = k
OuterLoop(k) == IF k < max_restarts THEN "rule" ELSE "gaveup"

\* normalize(mol) is entered: the caller computes normalize(normalize(g))
Normalize(r) ==
    /\ turn = r
    /\ pc[r] \in {"idle", "done"}
    /\ Len(returned[r]) < 2
    /\ mol' = Upd(mol, r, Input(r))
    /\ n' = Upd(n, r, 0)
    /\ pos' = Upd(pos, r, 1)
    /\ calls' = Upd(calls, r, << >>)
    /\ warned' = Upd(warned, r, 0)
    /\ sanitized' = Upd(sanitized, r, 0)
    /\ own' = Upd(own, r, TRUE)
    /\ touched' = Upd(touched, r, 0)
    /\ pc' = Upd(pc, r, OuterLoop(0))
    /\ turn' = NextTurn(r)
    /\ UNCHANGED <<g, normalizations, max_restarts, mols, rn, cands, ret,
                   returned, memo, compiled, prev>>

\* for normalization in self.normalizations:
\*     product = self._apply_transform(mol, normalization.transform)
\* up to `mols = [mol]`
TryRule(r) ==
    /\ turn = r
    /\ pc[r] = "rule"
    /\ pos[r] <= Len(normalizations)
    /\ compiled' = IF Memoized(memo, Rule(r)) THEN compiled
                   ELSE [compiled EXCEPT ![Rule(r)] = @ + 1]
    /\ IF Memoized(memo, Rule(r)) \/ Compiles(Rule(r))
       THEN /\ memo' = Remember(memo, Rule(r))
            /\ mols' = Upd(mols, r, <<mol[r]>>)
            /\ rn' = Upd(rn, r, 0)
            /\ cands' = Upd(cands, r, EmptyDict)
            /\ prev' = Upd(prev, r, << >>)
            /\ pc' = Upd(pc, r, "round")
       ELSE /\ pc' = Upd(pc, r, Uncaught("rule_error"))
            /\ UNCHANGED <<memo, mols, rn, cands, prev>>
    /\ turn' = NextTurn(r)
    /\ UNCHANGED <<g, normalizations, max_restarts, mol, n, pos, ret, calls,
                   warned, sanitized, returned, own, touched>>

\* else: return mol   (the for loop finished without break)
ReturnConverged(r) ==
    /\ turn = r
    /\ pc[r] = "rule"
    /\ pos[r] > Len(normalizations)
    /\ returned' = Upd(returned, r, Append(returned[r],
            [arg |-> Input(r), result |-> mol[r], exit |-> "converged",
             passes |-> n[r] + 1, calls |-> calls[r],
             warned |-> warned[r], sanitized |-> sanitized[r],
             touched |-> touched[r]]))
    /\ pc' = Upd(pc, r, "done")
    /\ turn' = NextTurn(r)
    /\ UNCHANGED <<g, normalizations, max_restarts, mol, n, pos, mols, rn,
                   cands, ret, calls, warned, sanitized, memo, compiled, own,
                   touched, prev>>

\* one round of `for n in xrange(20)` in _apply_transform
Round(r) ==
    /\ turn = r
    /\ pc[r] = "round"
    /\ rn[r] < MaxRounds
    /\ \E ps \in Enumerations(Rule(r), mols[r]) :
        LET products == Collect(ps, FreshProducts(cands[r])) IN
        IF DOMAIN products # {}
        THEN /\ mols' = Upd(mols, r, SortedValues(products))
             /\ cands' = Upd(cands, r, products)
             /\ prev' = Upd(prev, r, mols[r])
             /\ rn' = Upd(rn, r, NextRound(rn[r]))
             /\ UNCHANGED <<pc, ret>>
        ELSE /\ ret' = Upd(ret, r, RoundResult(mols[r], rn[r]))
             /\ pc' = Upd(pc, r, "ret")
             /\ UNCHANGED <<mols, cands, rn, prev>>
    /\ turn' = NextTurn(r)
    /\ UNCHANGED <<g, normalizations, max_restarts, mol, n, pos, calls,
                   warned, sanitized, returned, memo, compiled, own, touched>>

\* the for loop of _apply_transform runs out of rounds; the function body
\* ends there
RoundsExhausted(r) ==
    /\ turn = r
    /\ pc[r] = "round"
    /\ rn[r] = MaxRounds
    /\ ret' = Upd(ret, r, FallOffEnd(mols[r]))
    /\ pc' = Upd(pc, r, "ret")
    /\ turn' = NextTurn(r)
    /\ UNCHANGED <<g, normalizations, max_restarts, mol, n, pos, mols, rn,
                   cands, calls, warned, sanitized, returned, memo, compiled,
                   own, touched, prev>>

\* AfterChange that continues in place with the following rule
AfterChangeContinue(k) == k + 1

\* position of the next rule tried after the rule at position k changed mol
\* (`break` leaves the inner for loop, the next pass starts at the first rule)
AfterChange(k) == 1

\* AfterNoChange that skips a rule
AfterNoChangeSkip(k) == k + 2

\* position of the next rule tried after the rule at position k left mol alone
AfterNoChange(k) == k + 1

\* if product: logging.info(...); mol = product; break
Product(r) ==
    /\ turn = r
    /\ pc[r] = "ret"
    /\ calls' = Upd(calls, r, Append(calls[r],
            [pass |-> n[r], pos |-> pos[r], arg |-> mol[r], res |-> ret[r],
             rounds |-> rn[r]]))
    /\ IF Truthy(ret[r])
       THEN /\ mol' = Upd(mol, r, ret[r])
            /\ own' = Upd(own, r, FALSE)
            /\ n' = Upd(n, r, n[r] + 1)
            /\ pos' = Upd(pos, r, AfterChange(pos[r]))
            /\ pc' = Upd(pc, r, OuterLoop(n[r] + 1))
       ELSE /\ pos' = Upd(pos, r, AfterNoChange(pos[r]))
            /\ pc' = Upd(pc, r, "rule")
            /\ UNCHANGED <<mol, n, own>>
    /\ turn' = NextTurn(r)
    /\ UNCHANGED <<g, normalizations, max_restarts, mols, rn, cands, ret,
                   warned, sanitized, returned, memo, compiled, touched, prev>>

\* logging.warn('Gave up normalization after %s restarts', ...)
\* Chem.SanitizeMol(mol); return mol
GiveUp(r) ==
    /\ turn = r
    /\ pc[r] = "gaveup"
    /\ warned' = Upd(warned, r, warned[r] + 1)
    /\ sanitized' = Upd(sanitized, r, sanitized[r] + 1)
    /\ touched' = Upd(touched, r, IF own[r] THEN touched[r] + 1 ELSE touched[r])
    /\ IF SanitizeOK(mol[r])
       THEN /\ returned' = Upd(returned, r, Append(returned[r],
                   [arg |-> Input(r), result |-> mol[r], exit |-> "gave_up",
                    passes |-> n[r], calls |-> calls[r],
                    warned |-> warned[r] + 1, sanitized |-> sanitized[r] + 1,
                    touched |-> IF own[r] THEN touched[r] + 1 ELSE touched[r]]))
            /\ pc' = Upd(pc, r, "done")
       ELSE /\ pc' = Upd(pc, r, "raised")
            /\ UNCHANGED returned
    /\ turn' = NextTurn(r)
    /\ UNCHANGED <<g, normalizations, max_restarts, mol, n, pos, mols, rn,
                   cands, ret, calls, memo, compiled, own, prev>>

Next ==
    \/ \E r \in Runs : Normalize(r)
    \/ \E r \in Runs : TryRule(r)
    \/ \E r \in Runs : ReturnConverged(r)
    \/ \E r \in Runs : Round(r)
    \/ \E r \in Runs : RoundsExhausted(r)
    \/ \E r \in Runs : Product(r)
    \/ \E r \in Runs : GiveUp(r)

Spec == Init /\ [][Next]_vars

\* one run on a molecule in its first atom ordering (the atom ordering has no
\* part in the control flow)
InitFair == InitRuns({1}) /\ g.ord = 0

\* the code is single-threaded and synchronous: a step that can be taken is taken
FairSpec == InitFair /\ [][Next]_vars /\ WF_vars(Next)

\* two runs of the caller's program on the same molecule and the same engine
\* configuration, stepped alternately
InitPair == InitRuns({1, 2})

SpecPair == InitPair /\ [][Next]_vars

\* one run of an engine whose rule sequence may hold the rule that does not
\* parse, on a molecule in its first atom ordering
InitRules == InitWith({1}, AllNames) /\ g.ord = 0

SpecRules == InitRules /\ [][Next]_vars

----------------------------------------------------------------------------
(* Vocabulary of the properties *)

\* the completed normalize calls of run r
Done(r) == {returned[r][i] : i \in 1..Len(returned[r])}

\* the entries of a call log in which the rule changed the molecule
RewriteIdx(cs) == {i \in 1..Len(cs) : cs[i].res # None}

\* the transform produces at least one product that can be sanitized
Fires(rule, s) ==
    \E i \in 1..Len(Reaction(rule, s)) : SanitizeOK(Reaction(rule, s)[i][1])

\* the smallest of a non-empty set of strings
StrMin(S) == CHOOSE x \in S : \A y \in S : x = y \/ StrLess(x, y)

----------------------------------------------------------------------------
(* C1 *)

\* C1 as stated: normalize(normalize(g)) has the same canonical string as
\* normalize(g), whichever way the first call ended.
C1_IdempotentAlways ==
    \A r \in Runs :
        Len(returned[r]) = 2 =>
            returned[r][2].result.smi = returned[r][1].result.smi

\* C1: when the first call returned through the converged path,
\* normalize(normalize(g)) has the same canonical string as normalize(g), and
\* the second call converges in one pass without changing anything.
C1_IdempotentConverged ==
    \A r \in Runs :
        (Len(returned[r]) = 2 /\ returned[r][1].exit = "converged") =>
            /\ returned[r][2].result.smi = returned[r][1].result.smi
            /\ returned[r][2].exit = "converged"
            /\ returned[r][2].passes = 1

C1_Witness ==
    /\ Len(returned[1]) = 2
    /\ returned[1][1].exit = "converged"
    /\ returned[1][1].passes >= 2
    /\ returned[1][1].result.smi # g.smi

----------------------------------------------------------------------------
(* C2 *)

\* C2: when every one of the 20 rounds of _apply_transform produced a
\* sanitizable product, the call does not return None; it returns the member
\* of the last frontier with the smallest canonical string.
C2_RoundCap ==
    \A r \in Runs :
        (pc[r] = "ret" /\ rn[r] = MaxRounds) =>
            /\ ret[r] # None
            /\ ret[r] = mols[r][1]
            /\ ret[r].smi = StrMin(DOMAIN cands[r])

----------------------------------------------------------------------------
(* C3 *)

\* C3: a call that returned through the converged path ended with a pass in
\* which _apply_transform was called on the returned molecule once for every
\* rule, at positions 1, 2, ... in this order, and every call returned None.
C3_CleanPass ==
    \A r \in Runs : \A c \in Done(r) :
        c.exit = "converged" =>
            LET L == Len(normalizations)
                k == Len(c.calls)
            IN  /\ k >= L
                /\ \A j \in 1..L :
                      /\ c.calls[k - L + j].pos = j
                      /\ c.calls[k - L + j].arg = c.result
                      /\ c.calls[k - L + j].res = None
                      /\ c.calls[k - L + j].pass = c.passes - 1
                /\ \A i \in 1..k : c.calls[i].pass = c.passes - 1 => i > k - L

C3_Witness ==
    \E c \in Done(1) :
        /\ c.exit = "converged"
        /\ Len(normalizations) = 2
        /\ c.passes >= 2
        /\ c.result # g

----------------------------------------------------------------------------
(* C4 *)

\* In every pass the rules are tried at positions 1, 2, ... on the same
\* molecule, the rule that changes it is the first whose _apply_transform
\* result is not None, and the call made right after a change is for the rule
\* at position 1, on the changed molecule, in the next pass.
C4_Ordering(cs) ==
    /\ \A i \in 1..Len(cs) :
          cs[i].pos = 1 + Cardinality({j \in 1..(i - 1) : cs[j].pass = cs[i].pass})
    /\ \A i \in 1..Len(cs) : \A j \in 1..(i - 1) :
          cs[j].pass = cs[i].pass => cs[j].res = None /\ cs[j].arg = cs[i].arg
    /\ \A i \in 1..(Len(cs) - 1) :
          IF cs[i].res # None
          THEN /\ cs[i + 1].pos = 1
               /\ cs[i + 1].arg = cs[i].res
               /\ cs[i + 1].pass = cs[i].pass + 1
          ELSE /\ cs[i + 1].pos = cs[i].pos + 1
               /\ cs[i + 1].arg = cs[i].arg
               /\ cs[i + 1].pass = cs[i].pass

\* a call with a two-rule sequence [R1, R2] in which R1 left the input alone
\* and R2 changed it
C4_R2Fired(c) ==
    /\ Len(normalizations) = 2
    /\ Len(c.calls) >= 2
    /\ c.calls[1].res = None
    /\ c.calls[2].res # None

\* C4 as stated: the ordering, and for every sequence [R1, R2] where R1 does
\* not apply to g and applies to the result of R2, the molecule normalize
\* returns has had R1 applied after R2.
C4_RestartFromStartAlways ==
    \A r \in Runs :
        /\ C4_Ordering(calls[r])
        /\ \A c \in Done(r) :
              ( /\ C4_R2Fired(c)
                /\ ~Fires(normalizations[1], c.arg.smi)
                /\ Fires(normalizations[1], c.calls[2].res.smi) ) =>
                  /\ Len(c.calls) >= 3
                  /\ c.calls[3].pos = 1
                  /\ c.calls[3].res # None

\* C4: the ordering, and with max_restarts >= 2, for every sequence [R1, R2]
\* where _apply_transform with R1 leaves g unchanged and R2 changes it, the
\* next call is R1 on the result of R2; when that call changes the molecule,
\* the second change of the run is made by R1 after R2.
C4_RestartFromStart ==
    \A r \in Runs :
        /\ C4_Ordering(calls[r])
        /\ \A c \in Done(r) :
              (C4_R2Fired(c) /\ max_restarts >= 2) =>
                  /\ Len(c.calls) >= 3
                  /\ c.calls[3].pos = 1
                  /\ c.calls[3].arg = c.calls[2].res
                  /\ c.calls[3].pass = 1
                  /\ (c.calls[3].res # None =>
                        /\ c.passes >= 2
                        /\ (c.passes = 2 => c.result = c.calls[3].res))

C4_Witness ==
    \E c \in Done(1) :
        /\ C4_R2Fired(c)
        /\ ~Fires(normalizations[1], c.arg.smi)
        /\ Len(c.calls) >= 3
        /\ c.calls[3].pos = 1
        /\ c.calls[3].res # None
        /\ c.exit = "converged"
        /\ c.result = c.calls[3].res

----------------------------------------------------------------------------
(* C5 *)

\* C5: whenever _apply_transform returns a molecule, it is the member of the
\* last non-empty `products` dict with the smallest canonical string, and two
\* runs making the same call return the same canonical string whatever the
\* orders in which the primitive enumerated the products in each.
C5_TieBreak ==
    /\ \A r \in Runs :
          (pc[r] = "ret" /\ ret[r] # None) =>
              /\ DOMAIN cands[r] # {}
              /\ ret[r].smi = StrMin(DOMAIN cands[r])
              /\ ret[r] = cands[r][ret[r].smi]
    /\ \A r, q \in Runs :
          ( /\ pc[r] = "ret" /\ pc[q] = "ret"
            /\ pos[r] = pos[q]
            /\ mol[r].smi = mol[q].smi ) =>
              ret[r].smi = ret[q].smi

C5_Witness ==
    /\ pc[1] = "ret" /\ pc[2] = "ret"
    /\ pos[1] = pos[2]
    /\ mol[1].smi = mol[2].smi
    /\ ret[1] # None
    /\ Cardinality(DOMAIN cands[1]) >= 2
    /\ \E k \in DOMAIN cands[1] : Len(k) < Len(ret[1].smi)
    /\ ret[1].ord # ret[2].ord

----------------------------------------------------------------------------
(* C6 *)

\* C6: no call raises; once max_restarts passes have changed the molecule no
\* rule is tried again; the call then warns once, sanitizes the current
\* molecule once and returns it, and that molecule is the result of the
\* max_restarts-th change.
C6_GiveUp ==
    \A r \in Runs :
        /\ pc[r] # "raised"
        /\ pc[r] \in {"rule", "round", "ret"} => n[r] < max_restarts
        /\ Cardinality(RewriteIdx(calls[r])) = max_restarts =>
              pc[r] \in {"gaveup", "done"}
        /\ pc[r] = "gaveup" =>
              /\ Cardinality(RewriteIdx(calls[r])) = max_restarts
              /\ warned[r] = 0 /\ sanitized[r] = 0
        /\ \A c \in Done(r) :
              (Cardinality(RewriteIdx(c.calls)) = max_restarts) <=> (c.exit = "gave_up")
        /\ \A c \in Done(r) :
              c.exit = "gave_up" =>
                  /\ c.warned = 1
                  /\ c.sanitized = 1
                  /\ c.passes = max_restarts
                  /\ Len(c.calls) \in RewriteIdx(c.calls)
                  /\ c.result = c.calls[Len(c.calls)].res
                  /\ \A p \in 0..(max_restarts - 1) :
                        \E i \in RewriteIdx(c.calls) : c.calls[i].pass = p

C6_Witness ==
    \E c \in Done(1) :
        /\ c.exit = "gave_up"
        /\ max_restarts >= 2
        /\ c.warned = 1 /\ c.sanitized = 1

----------------------------------------------------------------------------
(* C7 *)

C7_Bounds ==
    \A r \in Runs :
        /\ pc[r] # "raised"
        /\ n[r] <= max_restarts
        /\ rn[r] <= MaxRounds
        /\ \A i \in 1..Len(calls[r]) :
              calls[r][i].rounds <= MaxRounds /\ calls[r][i].pass < max_restarts
        /\ \A c \in Done(r) :
              /\ c.passes <= max_restarts
              /\ (normalizations = <<"osc">> /\ c.arg.smi \in {A, B}) =>
                    c.result.smi \in {A, B} /\ SanitizeOK(c.result)

----------------------------------------------------------------------------
(* C8 *)

\* C8: a product that cannot be sanitized is never in `products`, never in a
\* frontier built from it, never returned, and raises nothing; when no product
\* of the transform from the molecule passed in can be sanitized,
\* _apply_transform returns None in round 0.
C8_InvalidFiltered ==
    \A r \in Runs :
        /\ pc[r] # "raised"
        /\ \A k \in DOMAIN cands[r] : SanitizeOK(cands[r][k])
        /\ (pc[r] = "round" /\ rn[r] > 0) =>
              \A i \in 1..Len(mols[r]) : SanitizeOK(mols[r][i])
        /\ (pc[r] = "ret" /\ ret[r] # None) => SanitizeOK(ret[r])
        /\ (pc[r] = "ret" /\ ~Fires(Rule(r), mol[r].smi)) =>
              ret[r] = None /\ rn[r] = 0

C8_Witness ==
    /\ pc[1] = "ret"
    /\ Len(Reaction(Rule(1), mol[1].smi)) > 0
    /\ ~Fires(Rule(1), mol[1].smi)
    /\ ret[1] = None

----------------------------------------------------------------------------
(* C9 *)

\* C9: two runs on the same molecule with the same rule sequence and the same
\* max_restarts, stepped side by side, are at the same place after the same
\* number of steps and return molecules with the same canonical string through
\* the same exit.
C9_Deterministic ==
    turn = 1 =>
        /\ pc[1] = pc[2]
        /\ Len(returned[1]) = Len(returned[2])
        /\ \A i \in 1..Len(returned[1]) :
              /\ returned[1][i].result.smi = returned[2][i].result.smi
              /\ returned[1][i].exit = returned[2][i].exit

C9_Witness ==
    /\ turn = 1
    /\ Len(returned[1]) >= 1
    /\ Len(returned[2]) >= 1
    /\ returned[1][1].result.smi # g.smi
    /\ returned[1][1].result.ord # returned[2][1].result.ord

----------------------------------------------------------------------------
(* C10 *)

\* C10: when no rule's transform produces anything from the molecule passed
\* in, normalize returns that very molecule after one pass in which each rule
\* is tried once, in order, without the warning and without the final
\* sanitization.
C10_NoOp ==
    \A r \in Runs : \A c \in Done(r) :
        (\A i \in 1..Len(normalizations) :
            Reaction(normalizations[i], c.arg.smi) = << >>) =>
            /\ c.result = c.arg
            /\ c.exit = "converged"
            /\ c.passes = 1
            /\ Len(c.calls) = Len(normalizations)
            /\ \A i \in 1..Len(c.calls) :
                  /\ c.calls[i].pos = i
                  /\ c.calls[i].arg = c.arg
                  /\ c.calls[i].res = None
                  /\ c.calls[i].rounds = 0
            /\ c.warned = 0
            /\ c.sanitized = 0

C10_Witness ==
    \E c \in Done(1) :
        /\ Len(normalizations) = 2
        /\ \A i \in 1..2 : Reaction(normalizations[i], c.arg.smi) = << >>
        /\ c.arg = g
        /\ c.result = g

----------------------------------------------------------------------------
(* C11 *)

\* C11: whenever normalize returns through the converged path, no rule's
\* transform produces from the returned molecule a product that can be
\* sanitized.
C11_FixedPoint ==
    \A r \in Runs : \A c \in Done(r) :
        c.exit = "converged" =>
            \A i \in 1..Len(normalizations) :
                ~Fires(normalizations[i], c.result.smi)

----------------------------------------------------------------------------
(* C12 *)

\* the positions at which a call log reads `normalization.transform`
LogRules(cs) == {normalizations[cs[i].pos] : i \in 1..Len(cs)}

\* the Normalization objects whose `transform` property run r has read so far
Accessed(r) ==
    UNION {LogRules(c.calls) : c \in Done(r)}
      \cup LogRules(calls[r])
      \cup (IF pc[r] \in {"round", "ret", "rule_error"} THEN {Rule(r)} ELSE {})

----------------------------------------------------------------------------
(* C13 *)

\* what holds in every state: nothing has been compiled or raised for a rule
\* nobody read; a call is left by the error only at a rule that does not parse,
\* after the earlier rules of that pass were tried; no _apply_transform call
\* was ever made for a rule that does not parse; a call that returned with
\* such a rule in the sequence stopped every pass before it and gave up
C13_State ==
    \A r \in Runs :
        /\ \A x \in AllNames : x \notin Accessed(r) => compiled[x] = 0
        /\ pc[r] = "rule_error" =>
              /\ ~Compiles(Rule(r))
              /\ compiled[Rule(r)] = 1
              /\ Rule(r) \notin memo
              /\ \A k \in 1..(pos[r] - 1) : Compiles(normalizations[k])
              /\ {calls[r][i].pos : i \in {j \in 1..Len(calls[r]) :
                                             calls[r][j].pass = n[r]}}
                    = 1..(pos[r] - 1)
        /\ \A x \in LogRules(calls[r]) : Compiles(x)
        /\ \A c \in Done(r) :
              /\ \A x \in LogRules(c.calls) : Compiles(x)
              /\ (\E k \in 1..Len(normalizations) : ~Compiles(normalizations[k])) =>
                    c.exit = "gave_up"

\* the error leaves normalize: the call makes no further step and returns
\* no molecule
C13_Fatal ==
    \A r \in Runs :
        pc[r] = "rule_error" =>
            /\ pc'[r] = "rule_error"
            /\ returned'[r] = returned[r]
            /\ mol'[r] = mol[r]

\* the error is raised whenever a pass reaches a rule that does not parse
C13_Raised ==
    \A r \in Runs :
        ( /\ turn = r
          /\ pc[r] = "rule"
          /\ pos[r] <= Len(normalizations)
          /\ ~Compiles(normalizations[pos[r]]) ) =>
            pc'[r] = "rule_error"

\* C13: a rule whose text does not parse raises nothing when constructed; the
\* error is raised when a pass of normalize first reaches its position, it
\* leaves normalize uncaught and no molecule is returned, and it is not raised
\* in a call whose passes all stop at an earlier rule.
C13_LazyFatal ==
    /\ []C13_State
    /\ [][C13_Fatal]_vars
    /\ [][C13_Raised]_vars

C13_Witness ==
    /\ pc[1] = "rule_error"
    /\ pos[1] = 2
    /\ Len(returned[1]) = 1
    /\ returned[1][1].exit = "gave_up"
    /\ LogRules(returned[1][1].calls) = {normalizations[1]}
    /\ compiled[normalizations[2]] = 1

----------------------------------------------------------------------------
(* C14 *)

\* what a call log shows of a call: positions, passes and canonical strings
LogView(cs) ==
    [i \in 1..Len(cs) |->
        <<cs[i].pass, cs[i].pos, cs[i].arg.smi, cs[i].res.smi, cs[i].rounds>>]

\* the caller's object is never sanitized in place: the molecule the final
\* Chem.SanitizeMol is applied to is a product of RunReactants; and a call on
\* a molecule with the canonical string of an earlier call's molecule runs as
\* that call did
C14_State ==
    \A r \in Runs :
        /\ touched[r] = 0
        /\ \A c \in Done(r) : c.touched = 0
        /\ pc[r] = "gaveup" => ~own[r]
        /\ (pc[r] \in {"rule", "round", "ret"} /\ own[r]) => mol[r] = Input(r)
        /\ \A i, j \in 1..Len(returned[r]) :
              returned[r][i].arg.smi = returned[r][j].arg.smi =>
                  /\ returned[r][i].result.smi = returned[r][j].result.smi
                  /\ returned[r][i].exit = returned[r][j].exit
                  /\ LogView(returned[r][i].calls) = LogView(returned[r][j].calls)

\* no step changes the rule sequence, max_restarts or the caller's molecule
C14_Frame ==
    /\ normalizations' = normalizations
    /\ max_restarts' = max_restarts
    /\ g' = g

\* C14: with max_restarts >= 1 a normalize call never modifies the molecule
\* passed in and leaves the engine's rule sequence and max_restarts as they
\* were, so a later call is not affected by an earlier one.
C14_ValuesNoState ==
    /\ []C14_State
    /\ [][C14_Frame]_vars

C14_Witness ==
    /\ Len(returned[1]) = 2
    /\ returned[1][1].exit = "gave_up"
    /\ returned[1][1].sanitized = 1
    /\ returned[1][2].arg.smi = returned[1][1].arg.smi
    /\ returned[1][2].exit = "gave_up"
    /\ touched[1] = 0

----------------------------------------------------------------------------
(* C15 *)

\* the changes a call log holds for pass p
PassRewrites(cs, p) == {i \in RewriteIdx(cs) : cs[i].pass = p}

\* C15: a call changes the molecule at most max_restarts times and at most
\* once in a pass; the warning and the final sanitization happen iff it
\* changed it exactly max_restarts times, and the converged return happens
\* iff one of the first max_restarts passes changed nothing.
C15_Accounting ==
    \A r \in Runs :
        /\ Cardinality(RewriteIdx(calls[r])) <= max_restarts
        /\ \A p \in 0..max_restarts : Cardinality(PassRewrites(calls[r], p)) <= 1
        /\ pc[r] \in {"rule", "round", "ret", "gaveup"} =>
              n[r] = Cardinality(RewriteIdx(calls[r]))
        /\ \A c \in Done(r) :
              LET k == Cardinality(RewriteIdx(c.calls)) IN
              /\ k <= max_restarts
              /\ \A p \in 0..max_restarts : Cardinality(PassRewrites(c.calls, p)) <= 1
              /\ (c.warned = 1 /\ c.sanitized = 1) <=> (k = max_restarts)
              /\ (c.warned = 0 /\ c.sanitized = 0) <=> (k < max_restarts)
              /\ (c.exit = "converged") <=>
                    (\E p \in 0..(max_restarts - 1) :
                        /\ p <= k
                        /\ PassRewrites(c.calls, p) = {})

C15_Witness ==
    \E c \in Done(1) :
        /\ c.exit = "converged"
        /\ max_restarts = 3
        /\ Cardinality(RewriteIdx(c.calls)) = 2
        /\ c.warned = 0

----------------------------------------------------------------------------
(* C16 *)

\* the products that can be sanitized among those the transform gives from
\* the members of a frontier
ValidProducts(rule, ms) ==
    {p \in UNION {UNION {{x[i][1] : i \in 1..Len(x)} :
                          x \in RunReactants(rule, ms[j])} : j \in 1..Len(ms)} :
        SanitizeOK(p)}

\* C16: after every round that stored a product, the frontier holds exactly
\* the sanitizable products of that round from the members of the frontier
\* before it, one molecule per canonical string, in ascending order of the
\* strings; nothing else is carried over, and `products` holds that round's
\* products only.
C16_Frontier ==
    \A r \in Runs :
        (pc[r] \in {"round", "ret"} /\ rn[r] > 0) =>
            LET new == ValidProducts(Rule(r), prev[r]) IN
            /\ {mols[r][i] : i \in 1..Len(mols[r])} \subseteq new
            /\ {mols[r][i].smi : i \in 1..Len(mols[r])} = {p.smi : p \in new}
            /\ \A i, j \in 1..Len(mols[r]) :
                  i < j => StrLess(mols[r][i].smi, mols[r][j].smi)
            /\ DOMAIN cands[r] = {p.smi : p \in new}
            /\ \A i \in 1..Len(mols[r]) : cands[r][mols[r][i].smi] = mols[r][i]

C16_Witness ==
    /\ pc[1] = "round"
    /\ rn[1] = 2
    /\ Len(prev[1]) = 2
    /\ Len(mols[1]) = 2
    /\ \E i \in 1..2 : Reaction(Rule(1), prev[1][i].smi) = << >>
    /\ \A i \in 1..2 : \A j \in 1..2 : prev[1][i].smi # mols[1][j].smi

----------------------------------------------------------------------------
(* C17 *)

----------------------------------------------------------------------------
(* C18 *)

\* C18: at every point of a call `mol` is the molecule passed in or a product
\* that passed Chem.SanitizeMol in _apply_transform; a returned molecule is
\* the untouched input or such a product; the final Chem.SanitizeMol never
\* raises.
C18_HeldValid ==
    \A r \in Runs :
        /\ pc[r] # "raised"
        /\ pc[r] \in {"rule", "round", "ret", "gaveup"} =>
              IF own[r]
              THEN mol[r] = Input(r) /\ RewriteIdx(calls[r]) = {}
              ELSE /\ SanitizeOK(mol[r])
                   /\ RewriteIdx(calls[r]) # {}
                   /\ \E i \in RewriteIdx(calls[r]) :
                         /\ mol[r] = calls[r][i].res
                         /\ \A j \in RewriteIdx(calls[r]) : j <= i
        /\ \A c \in Done(r) :
              /\ \/ c.result = c.arg /\ RewriteIdx(c.calls) = {} /\ c.touched = 0
                 \/ SanitizeOK(c.result) /\ RewriteIdx(c.calls) # {}
              /\ c.exit = "gave_up" => SanitizeOK(c.result)

C18_Witness ==
    \E c \in Done(1) :
        /\ c.exit = "gave_up"
        /\ c.sanitized = 1
        /\ c.touched = 0
        /\ SanitizeOK(c.result)
        /\ \E i \in RewriteIdx(c.calls) :
              /\ c.result = c.calls[i].res
              /\ \A j \in RewriteIdx(c.calls) : j <= i
        /\ \E i \in RewriteIdx(c.calls) : c.calls[i].arg = g /\ c.arg = g

====
